---- MODULE Spec2Model ----
(***************************************************************************)
(* CosmoCalc: the App controller (App.tsx, kept as src/unnamed/part_000)   *)
(* and its types (src/types.ts).                                           *)
(*                                                                         *)
(* The controller keeps five React state slots (input, status, result,     *)
(* logs, error).  runCalculation issues one generateContent request and    *)
(* suspends at the await; its continuation runs when the request settles.  *)
(* Every handler and every continuation runs to completion on the single   *)
(* JavaScript thread, so each is one atomic step here.                     *)
(*                                                                         *)
(* Representation.                                                         *)
(*   - A JavaScript string that the code inspects (input, a log line) is a *)
(*     sequence of tokens; " " is the whitespace character, "a" a typed    *)
(*     non-whitespace character, and each quick template is one token.     *)
(*   - A nullable value is the empty tuple (null / undefined) or a         *)
(*     one-element tuple holding the value.                                *)
(*   - The tensor-to-scalar ratio r is an integer number of RUnit = 0.001, *)
(*     so 0.001 is 1 and 0.01 is 10.                                       *)
(*   - The "[time] " prefix that addLog puts before each line is the       *)
(*     constant token TimePrefix (the clock is not modelled).              *)
(*   - The GoogleGenAI client is an external collaborator: a request that  *)
(*     was issued stays in `pending` until it is fulfilled with a text or  *)
(*     rejected with an error.  Its constructor (line 74) and the call of  *)
(*     generateContent itself are taken to return normally; their code is  *)
(*     not part of this repository.                                        *)
(***************************************************************************)
EXTENDS Integers, Sequences, FiniteSets, TLC

VARIABLES
    input,      \* useState('')                       line 54
    status,     \* useState(CalculationStatus.IDLE)   line 55
    result,     \* useState<CalculationResponse|null> line 56
    logs,       \* useState<string[]>([])             line 57
    error,      \* useState<string|null>(null)        line 58
    pending,    \* generateContent calls in flight (line 94), oldest first
    event       \* history: the handler or continuation that ran last

vars == <<input, status, result, logs, error, pending, event>>

----------------------------------------------------------------------------
(* Bounds of the model *)

MaxTyped == 1       \* longest text typed or pasted into the textarea
MaxInput == 3       \* longest input a template button may build
MaxPending == 2     \* most requests in flight at once

----------------------------------------------------------------------------
(* Nullable values *)

None == <<>>
Some(x) == <<x>>

(* src/types.ts: enum CalculationStatus *)
IDLE == "IDLE"
DERIVING == "DERIVING"
CALCULATING == "CALCULATING"
SUCCESS == "SUCCESS"
ERROR == "ERROR"
CalculationStatus == {IDLE, DERIVING, CALCULATING, SUCCESS, ERROR}

----------------------------------------------------------------------------
(* Strings *)

Whitespace == {" "}
TypedChars == {" ", "a"}

(* line 217: the quick templates; the first of the four literals, which *)
(* all go through the same arrow function of line 220                   *)
Templates == {"Starobinsky"}

RECURSIVE TrimStart(_)
TrimStart(s) ==
    IF s = <<>> THEN <<>>
    ELSE IF Head(s) \in Whitespace THEN TrimStart(Tail(s))
    ELSE s

RECURSIVE TrimEnd(_)
TrimEnd(s) ==
    IF s = <<>> THEN <<>>
    ELSE IF s[Len(s)] \in Whitespace THEN TrimEnd(SubSeq(s, 1, Len(s) - 1))
    ELSE s

(* String.prototype.trim *)
Trim(s) == TrimEnd(TrimStart(s))

(* String.prototype.substring(from, to), 0-based, to exclusive *)
Substring(s, from, to) ==
    SubSeq(s, from + 1, IF to < Len(s) THEN to ELSE Len(s))

(* line 72: input.substring(0, 50) *)
TargetPrefixLen == 50

RECURSIVE StringsUpTo(_)
StringsUpTo(n) ==
    IF n = 0 THEN {<<>>}
    ELSE LET shorter == StringsUpTo(n - 1)
         IN  shorter \cup {Append(s, c) : s \in {t \in shorter : Len(t) = n - 1},
                                          c \in TypedChars}

(* the values the textarea's onChange can deliver *)
TypedValues == StringsUpTo(MaxTyped)

----------------------------------------------------------------------------
(* The remote reply *)

(* One unit of r and ns is 0.001. *)
LowThreshold == 1       \* line 432: result.observables.r > 0.001
HighThreshold == 10     \* line 430: result.observables.r > 0.01

RValues == {0, LowThreshold, LowThreshold + 1, HighThreshold, HighThreshold + 1}
NsValues == {965}

(* types.ts ObservableResult, as JSON.parse may deliver it: a property that *)
(* the document lacks reads as undefined (None).                            *)
Observables ==
    [r : {Some(x) : x \in RValues}, ns : {Some(x) : x \in NsValues}]
    \cup {[r |-> None, ns |-> Some(965)]}

(* What JSON.parse can return for the reply: null, an object without    *)
(* observables, or an object with observables.  The `as                 *)
(* CalculationResponse` cast of line 146 checks nothing at run time.    *)
Documents ==
    {None, Some([observables |-> None])}
    \cup {Some([observables |-> Some(o)]) : o \in Observables}

(* response.text: text that is not JSON (syntaxOk = FALSE), or the      *)
(* serialisation of a document.                                         *)
ReplyTexts ==
    {[syntaxOk |-> FALSE, doc |-> None]}
    \cup {[syntaxOk |-> TRUE, doc |-> d] : d \in Documents}

(* The error a rejected request carries: err.message is undefined, "" or a text. *)
Errors == {[message |-> m] : m \in {None, Some(""), Some("network timeout")}}

Replies ==
    {[rejected |-> TRUE, err |-> e, text |-> [syntaxOk |-> FALSE, doc |-> None]]
        : e \in Errors}
    \cup {[rejected |-> FALSE, err |-> [message |-> None], text |-> t]
        : t \in ReplyTexts}

(* Completion records of an evaluation: normal with a value, or a throw. *)
Normal(v) == [threw |-> FALSE, value |-> v, err |-> [message |-> None]]
Throw(m) == [threw |-> TRUE, value |-> None, err |-> [message |-> Some(m)]]

(* line 146: JSON.parse(response.text) *)
JSONparse(text) ==
    IF text.syntaxOk THEN Normal(text.doc)
    ELSE Throw("Unexpected token < in JSON at position 0")

(* Number.prototype.toFixed(4) of k units of 0.001 *)
ToFixed4(k) ==
    <<ToString(k \div 1000), ".",
      IF k % 1000 < 10 THEN "00" ELSE IF k % 1000 < 100 THEN "0" ELSE "",
      ToString(k % 1000), "0">>

(* line 149: the template literal                                        *)
(* `Result: r=${data.observables.r.toFixed(4)}, ns=${...ns.toFixed(4)}`  *)
ResultLine(data) ==
    IF data = None
    THEN Throw("Cannot read properties of null (reading 'observables')")
    ELSE IF data[1].observables = None
    THEN Throw("Cannot read properties of undefined (reading 'r')")
    ELSE LET o == data[1].observables[1] IN
        IF o.r = None \/ o.ns = None
        THEN Throw("Cannot read properties of undefined (reading 'toFixed')")
        ELSE Normal(<<"Result: r=">> \o ToFixed4(o.r[1]) \o <<", ns=">>
                    \o ToFixed4(o.ns[1]))

----------------------------------------------------------------------------
(* The log *)

TimePrefix == "[time] "

(* line 61-63: addLog appends `[${time}] ${msg}` *)
addLog(ls, msg) == Append(ls, <<TimePrefix>> \o msg)

(* lines 70-72, 77: setLogs([]) and the three lines logged before the await *)
StartLogs(in) ==
    addLog(addLog(addLog(<<>>,
        <<"Initializing Cosmological Agent...">>),
        <<"Targeting Theory: ">> \o Substring(in, 0, TargetPrefixLen) \o <<"...">>),
        <<"Parsing action and deriving slow-roll parameters...">>)

CompleteMsg ==
    <<"Calculations complete. Validating results against Planck/BICEP constraints...">>
ErrorMsg == <<"ERROR: Physical model validation failed.">>

(* line 153: the fixed fallback message *)
Fallback ==
    "Failed to process the theory. Ensure the input describes a valid physical model."

(* JavaScript truthiness of a string|undefined *)
Truthy(m) == m # None /\ m[1] # ""

(* Mutant: err.message ?? Fallback, which keeps an empty message. *)
ErrorTextNullish(err) == IF err.message # None THEN err.message[1] ELSE Fallback

(* line 153: err.message || Fallback *)
ErrorText(err) == IF Truthy(err.message) THEN err.message[1] ELSE Fallback

----------------------------------------------------------------------------
(* The view *)

SentenceA == "Likely detectable by next-gen ground arrays (Simons Observatory, CMBS4)."
SentenceB == "At the threshold of sensitivity for LiteBIRD space mission."
SentenceC ==
    "Potentially beyond current near-term detection limits; requires highly optimized B-mode search."

(* Mutant: both comparisons inclusive (>= instead of >). *)
DetectionOutlookInclusive(r) ==
    IF r >= HighThreshold THEN SentenceA
    ELSE IF r >= LowThreshold THEN SentenceB
    ELSE SentenceC

(* lines 430-434: the Detection Outlook sentence *)
DetectionOutlook(r) ==
    IF r > HighThreshold THEN SentenceA
    ELSE IF r > LowThreshold THEN SentenceB
    ELSE SentenceC

(* line 285: the results panel is rendered *)
ResultsPanelShown == result # None /\ status = SUCCESS

(* line 206: the trigger's disabled attribute *)
RunDisabled == status = DERIVING \/ input = <<>>

----------------------------------------------------------------------------
(* Initial state: lines 54-58 *)

Init ==
    /\ input = <<>>
    /\ status = IDLE
    /\ result = None
    /\ logs = <<>>
    /\ error = None
    /\ pending = 0
    /\ event = <<"mount">>

----------------------------------------------------------------------------
(* Handlers *)

(* line 199: onChange={(e) => setInput(e.target.value)} *)
onChange(value) ==
    /\ value # input
    /\ input' = value
    /\ event' = <<"onChange">>
    /\ UNCHANGED <<status, result, logs, error, pending>>

(* line 220: setInput(prev => prev + (prev ? ' ' : '') + t) *)
TemplateAppend(prev, t) ==
    prev \o (IF prev # <<>> THEN <<" ">> ELSE <<>>) \o <<t>>

ClickTemplate(t) ==
    /\ Len(TemplateAppend(input, t)) <= MaxInput
    /\ input' = TemplateAppend(input, t)
    /\ event' = <<"template">>
    /\ UNCHANGED <<status, result, logs, error, pending>>

(* Mutant: setStatus(DERIVING) of line 68 runs before the guard of line 66. *)
runCalculationStatusFirst ==
    /\ event' = <<"runCalculation">>
    /\ status' = DERIVING
    /\ IF Trim(input) = <<>>
       THEN UNCHANGED <<input, result, logs, error, pending>>
       ELSE /\ pending < MaxPending
            /\ error' = None
            /\ logs' = StartLogs(input)
            /\ pending' = pending + 1
            /\ UNCHANGED <<input, result>>

(* Mutant: the guard of line 66 tests input instead of input.trim(). *)
runCalculationNoTrim ==
    /\ event' = <<"runCalculation">>
    /\ IF input = <<>>
       THEN UNCHANGED <<input, status, result, logs, error, pending>>
       ELSE /\ pending < MaxPending
            /\ status' = DERIVING
            /\ error' = None
            /\ logs' = StartLogs(input)
            /\ pending' = pending + 1
            /\ UNCHANGED <<input, result>>

(* Mutant: setLogs([]) of line 70 is missing, so the lines are appended. *)
runCalculationKeepLogs ==
    /\ event' = <<"runCalculation">>
    /\ IF Trim(input) = <<>>
       THEN UNCHANGED <<input, status, result, logs, error, pending>>
       ELSE /\ pending < MaxPending
            /\ status' = DERIVING
            /\ error' = None
            /\ logs' = logs \o StartLogs(input)
            /\ pending' = pending + 1
            /\ UNCHANGED <<input, result>>

(* lines 65-94: runCalculation up to the await.  An input that trims to  *)
(* the empty string returns at line 66; otherwise the state is reset and *)
(* the request is issued.                                                *)
runCalculation ==
    /\ event' = <<"runCalculation">>
    /\ IF Trim(input) = <<>>
       THEN UNCHANGED <<input, status, result, logs, error, pending>>
       ELSE /\ pending < MaxPending
            /\ status' = DERIVING
            /\ error' = None
            /\ logs' = StartLogs(input)
            /\ pending' = pending + 1
            /\ UNCHANGED <<input, result>>

(* lines 204-206: the trigger runs the handler unless it is disabled *)
ClickRun ==
    /\ ~RunDisabled
    /\ runCalculation

(* Mutant: setStatus(IDLE) of line 162 is missing. *)
handleClearKeepStatus ==
    /\ input' = <<>>
    /\ result' = None
    /\ logs' = <<>>
    /\ error' = None
    /\ event' = <<"handleClear">>
    /\ UNCHANGED <<status, pending>>

(* Mutant: setResult(null) of line 161 is missing. *)
handleClearKeepResult ==
    /\ input' = <<>>
    /\ status' = IDLE
    /\ logs' = <<>>
    /\ error' = None
    /\ event' = <<"handleClear">>
    /\ UNCHANGED <<result, pending>>

(* lines 159-165 *)
handleClear ==
    /\ input' = <<>>
    /\ result' = None
    /\ status' = IDLE
    /\ logs' = <<>>
    /\ error' = None
    /\ event' = <<"handleClear">>
    /\ UNCHANGED pending

(* lines 94, 146-156: what the try block has done when it completes or    *)
(* throws: the await rethrows a rejection; JSON.parse may throw; then     *)
(* setResult(data) and the first addLog run; then the template literal of *)
(* line 149 may throw before its addLog and setStatus(SUCCESS) run.       *)
Parsed(reply) ==
    IF reply.rejected THEN [threw |-> TRUE, value |-> None, err |-> reply.err]
    ELSE JSONparse(reply.text)

TryOutcome(reply) ==
    IF Parsed(reply).threw THEN Parsed(reply) ELSE ResultLine(Parsed(reply).value)

(* line 147: setResult(data) is reached iff nothing threw before it *)
ResultAfter(reply, old) ==
    IF Parsed(reply).threw THEN old ELSE Parsed(reply).value

(* lines 148-149, 155: the lines the continuation logs *)
LogsAfter(reply, old) ==
    IF Parsed(reply).threw THEN addLog(old, ErrorMsg)
    ELSE IF TryOutcome(reply).threw THEN addLog(addLog(old, CompleteMsg), ErrorMsg)
    ELSE addLog(addLog(old, CompleteMsg), TryOutcome(reply).value)

(* lines 150, 154 *)
StatusAfter(reply) == IF TryOutcome(reply).threw THEN ERROR ELSE SUCCESS

(* line 153 *)
ErrorAfter(reply, old) ==
    IF TryOutcome(reply).threw THEN Some(ErrorText(TryOutcome(reply).err)) ELSE old

(* The continuation of runCalculation after the await settles with `reply`. *)
Settle(reply) ==
    /\ pending > 0
    /\ pending' = pending - 1
    /\ result' = ResultAfter(reply, result)
    /\ logs' = LogsAfter(reply, logs)
    /\ status' = StatusAfter(reply)
    /\ error' = ErrorAfter(reply, error)
    /\ event' = <<"settle", reply>>
    /\ UNCHANGED input

----------------------------------------------------------------------------
(* The application as the interface drives it *)

Next ==
    \/ \E value \in TypedValues : onChange(value)
    \/ \E t \in Templates : ClickTemplate(t)
    \/ ClickRun
    \/ handleClear
    \/ \E reply \in Replies : Settle(reply)

Spec == Init /\ [][Next]_vars

(* line 94: the await resumes.  The remote call has no timeout; that  *)
(* every request in flight is eventually fulfilled or rejected is the *)
(* assumption under which progress is stated.                         *)
Resolve == \E reply \in Replies : Settle(reply)

LiveSpec == Spec /\ WF_vars(Resolve)

(* The handlers called directly: runCalculation is also invoked when the *)
(* trigger's disabled attribute would have withheld the click.           *)
NextHandler ==
    \/ Next
    \/ runCalculation

SpecHandler == Init /\ [][NextHandler]_vars

----------------------------------------------------------------------------
(* Vocabulary of the properties *)

Ran == event = <<"runCalculation">>
Cleared == event = <<"handleClear">>
Settled == event[1] = "settle"

(* A reply the run can use: fulfilled, JSON, with observables.r and *)
(* observables.ns present.                                          *)
UsableReply(reply) ==
    /\ ~reply.rejected
    /\ reply.text.syntaxOk
    /\ reply.text.doc # None
    /\ reply.text.doc[1].observables # None
    /\ reply.text.doc[1].observables[1].r # None
    /\ reply.text.doc[1].observables[1].ns # None

(* The three lines a run logs before its request can settle. *)
InitLines(in) ==
    << <<TimePrefix, "Initializing Cosmological Agent...">>,
       <<TimePrefix, "Targeting Theory: ">> \o in \o <<"...">>,
       <<TimePrefix, "Parsing action and deriving slow-roll parameters...">> >>

----------------------------------------------------------------------------
(* C1: in every reachable state the stored result is non-null if and only *)
(* if status is Success.  (The statement as claimed.)                     *)
C1_ResultIffSuccess == (result # None) <=> (status = SUCCESS)

(* C1, as amended: status Success implies a non-null result, and a       *)
(* non-null result implies status is not Idle; in Deriving and Error the *)
(* result may be null or not.                                            *)
C1_SuccessHasResult ==
    /\ status = SUCCESS => result # None
    /\ result # None => status # IDLE

C1_Witness == Settled /\ status = SUCCESS /\ result # None

(* C2: when a run's request settles, a usable reply makes status Success *)
(* and result exactly the parsed reply; any failure (rejection,          *)
(* unparsable text, a document without usable observables.r / .ns) makes *)
(* status Error and leaves result as it was before the settlement.       *)
C2_SettleContract ==
    [][event'[1] = "settle" /\ pending' = pending - 1 =>
        IF UsableReply(event'[2])
        THEN status' = SUCCESS /\ result' = event'[2].text.doc
        ELSE status' = ERROR /\ result' = result]_vars

(* C3: at most one request to the remote endpoint is outstanding at any *)
(* time, whatever the interface is made to do.                          *)
C3_SingleFlight == pending <= 1

(* C4: every change of status is a transition of the status machine:    *)
(* Success and Error are entered only from Deriving, by a settlement;   *)
(* they are left only to Idle by clear or to Deriving by a run with     *)
(* non-empty input; Deriving is entered only by a run.                  *)
C4_StatusMachine ==
    [][status' # status =>
        /\ status' \in {SUCCESS, ERROR} =>
              status = DERIVING /\ event'[1] = "settle"
        /\ status \in {SUCCESS, ERROR} =>
              \/ status' = IDLE /\ event' = <<"handleClear">>
              \/ status' = DERIVING /\ event' = <<"runCalculation">>
                    /\ input # <<>>
        /\ status' = DERIVING => event' = <<"runCalculation">>]_vars

(* C5: run with an input that has a non-whitespace character, from Idle, *)
(* Success or Error, leaves status Deriving, error null and logs holding *)
(* exactly that run's three initialisation lines, in the step that       *)
(* issues the request (which is then still outstanding).                 *)
C5_RunStartsDeriving ==
    [][(/\ event' = <<"runCalculation">>
        /\ Trim(input) # <<>>
        /\ Len(input) <= TargetPrefixLen
        /\ status \in {IDLE, SUCCESS, ERROR}) =>
        /\ status' = DERIVING
        /\ error' = None
        /\ logs' = InitLines(input)
        /\ pending' = pending + 1]_vars

C5_Witness ==
    /\ Ran
    /\ status = DERIVING
    /\ result # None
    /\ logs = InitLines(input)
    /\ pending = 1

(* C6: run with an empty or whitespace-only input changes nothing, in  *)
(* every status: status, logs, result, error and input stay and no     *)
(* request is issued.                                                  *)
C6_BlankRunIsNoOp ==
    [][event' = <<"runCalculation">> /\ Trim(input) = <<>> =>
        UNCHANGED <<input, status, result, logs, error, pending>>]_vars

C6_Witness ==
    /\ Ran
    /\ input = <<" ">>
    /\ status = DERIVING
    /\ logs # <<>>
    /\ pending = 1

(* C7: clear, in any status and with any request outstanding, leaves   *)
(* input empty, result null, logs empty, error null and status Idle.   *)
C7_ClearResets ==
    Cleared =>
        /\ input = <<>>
        /\ result = None
        /\ logs = <<>>
        /\ error = None
        /\ status = IDLE

C7_Witness == Cleared /\ pending > 0 /\ status = IDLE /\ result = None

(* C8: after a failed run the error text is the failure's message when *)
(* that is non-empty and the fixed fallback otherwise, status is Error *)
(* and the error text is neither null nor empty.                       *)
C8_ErrorMessage ==
    Settled /\ ~UsableReply(event[2]) =>
        LET message == TryOutcome(event[2]).err.message IN
        /\ status = ERROR
        /\ error # None
        /\ error[1] # ""
        /\ message # None /\ message[1] # "" => error[1] = message[1]
        /\ message = None \/ message = Some("") => error[1] = Fallback

C8_Witness ==
    /\ Settled
    /\ event[2].rejected
    /\ event[2].err.message = None
    /\ status = ERROR
    /\ error = Some(Fallback)

(* C9: the outlook sentence shown depends on r alone, with boundaries  *)
(* 0.01 and 0.001: r > 0.01 gives sentence A, 0.001 < r <= 0.01 gives  *)
(* B, r <= 0.001 gives C; so r = 0.01 gives B and r = 0.001 gives C.   *)
C9_OutlookBoundaries ==
    ResultsPanelShown =>
        LET r == result[1].observables[1].r[1] IN
        /\ r > 10 => DetectionOutlook(r) = SentenceA
        /\ 1 < r /\ r <= 10 => DetectionOutlook(r) = SentenceB
        /\ r <= 1 => DetectionOutlook(r) = SentenceC

C9_Witness ==
    /\ ResultsPanelShown
    /\ result[1].observables[1].r[1] = 10
    /\ DetectionOutlook(result[1].observables[1].r[1]) = SentenceB

(* C10: result changes only when a request settles with a successfully *)
(* parsed reply (result becomes that reply) and on clear (result       *)
(* becomes null); a run start, a failed request, an edit and a         *)
(* template button leave it unchanged.                                 *)
C10_ResultFrame ==
    [][result' # result =>
        \/ /\ event'[1] = "settle"
           /\ UsableReply(event'[2])
           /\ result' = event'[2].text.doc
        \/ /\ event' = <<"handleClear">>
           /\ result' = None]_vars

(* C11: in every reachable state the error message is non-null if and *)
(* only if status is Error: no error banner in Idle, Deriving or       *)
(* Success, and always a message in Error.                             *)
C11_ErrorIffErrorStatus == (error # None) <=> (status = ERROR)

====
